---- MODULE Spec2Model ----
(***************************************************************************)
(* Conversation / messaging data flow of Clg-Mart.                         *)
(*                                                                         *)
(* The store is the hosted database the client code talks to:              *)
(*   conversations             rows with id, listing_id, buyer_id,         *)
(*                             seller_id, created_at, updated_at           *)
(*   conversation_participants rows (conversation_id, user_id)             *)
(*   messages                  rows with id, conversation_id, sender_id,   *)
(*                             content, created_at, is_read                *)
(* The repository writes conversations in two shapes: the listing screens  *)
(* fill buyer_id / seller_id, MessagingService fills the join table.  Both *)
(* shapes live in the one conversations table here, a column a writer does *)
(* not set being NoUser (NULL).                                            *)
(*                                                                         *)
(* The repository creates the messages table and the view                  *)
(* conversations_with_details in two ways, and the code does not decide    *)
(* which one a deployment has: schema is chosen in Init and never changes. *)
(*   "sql"   the SQL script (unnamed/part_000): messages without is_read,  *)
(*           row level security with a SELECT and an INSERT policy         *)
(*   "setup" setupMessagingTables (lib/database-messaging.ts): messages    *)
(*           with is_read and no row level security                        *)
(*                                                                         *)
(* Subscriptions to the change feed of messages are channels; every        *)
(* committed change is offered to the subscribed channels, which keep the  *)
(* events that pass their filter until the client gets them.               *)
(***************************************************************************)
EXTENDS Integers, Sequences, FiniteSets, TLC

VARIABLES
  schema,  \* "sql" | "setup": which script created messages and the view
  convs,   \* conversations: sequence of rows, a row's id is its index
  parts,   \* conversation_participants: set of <<conversation_id, user_id>>
  msgs,    \* messages: sequence of rows, a row's id is its index
  now,     \* the database clock, NOW()
  call,    \* per client: the call it is in, or the one it made last with its result
  channels, \* realtime channels: sequence of subscriptions, in order of creation
  screen,  \* the conversation screen of one device: its component and its id
  view,    \* the state of the chat screen: messages, draft, sending, fetch
  listings, \* listings: sequence of rows, a row's id is its index
  images   \* listing_images: sequence of rows

vars == <<schema, convs, parts, msgs, now, call, channels, screen, view,
          listings, images>>

----------------------------------------------------------------------------
\* Bounds of the model.

\* Conversation rows the store may hold.
MaxConvs == 3
\* Conversation rows the store may hold in the specifications with messages.
MaxChatConvs == 2
\* Conversation rows the store may hold in the specifications of the sends
\* and of the list operations.
MaxSendConvs == 1
\* Message rows the store may hold.
MaxMsgs == 2

----------------------------------------------------------------------------
\* The world the clients act in.

Procs == {"p1", "p2"}

Users == {"u1", "u2", "u3"}
NoUser == "none"
\* An id that is no row of profiles.
NoSuchUser == "ux"

Listings == {"l1"}
NoListing == "none"
\* An id that is no row of listings.
NoSuchListing == "lx"

\* listings.seller_id, read into listing.seller.id by fetchListing.
sellerOf == [l \in Listings |-> "u1"]

NoConv == 0
NoMsg == 0

----------------------------------------------------------------------------
\* Rows and the queries over them.

ConvRow(l, buyer, seller, t) ==
  [listing_id |-> l, buyer_id |-> buyer, seller_id |-> seller,
   created_at |-> t, updated_at |-> t]

ConvIds == DOMAIN convs
MsgIds == DOMAIN msgs

\* The participants of a conversation, in whichever shape it was written.
Participants(c) ==
  ({convs[c].buyer_id, convs[c].seller_id} \ {NoUser})
    \cup {u \in Users : <<c, u>> \in parts}

\* The conversation ids of one listing between one unordered pair of users.
ConvsFor(l, a, b) ==
  {c \in ConvIds : convs[c].listing_id = l /\ Participants(c) = {a, b}}

\* useEffect of ListingDetail: isOwner follows currentUser and listing.
IsOwner(u, l) == u = sellerOf[l]

\* handleMessage's lookup: listing_id, buyer_id and seller_id all equal.
HandleMessageLookup(l, u, s) ==
  {c \in ConvIds : /\ convs[c].listing_id = l
                   /\ convs[c].buyer_id = u
                   /\ convs[c].seller_id = s}

\* handleMessageSeller's lookup: the two .or() filters and listing_id.
HandleMessageSellerMatches(l, u, s) ==
  {c \in ConvIds : /\ convs[c].buyer_id = u \/ convs[c].seller_id = u
                   /\ convs[c].buyer_id = s \/ convs[c].seller_id = s
                   /\ convs[c].listing_id = l}

\* .single(): a row only when exactly one row matches.
Single(S) == IF Cardinality(S) = 1 THEN S ELSE {}

\* The insert as it would be with UNIQUE (listing_id, buyer_id, seller_id).
InsertConversationUnique(row) ==
  /\ row.listing_id \in Listings
  /\ \A c \in ConvIds : \/ convs[c].listing_id # row.listing_id
                        \/ convs[c].buyer_id # row.buyer_id
                        \/ convs[c].seller_id # row.seller_id

\* INSERT into conversations: a foreign key on listing_id, and no unique
\* constraint over listing and participants.
InsertConversationAllowed(row) == row.listing_id \in Listings

\* INSERT of the two participant rows in one statement: foreign key on
\* user_id, primary key (conversation_id, user_id).
InsertParticipantsAllowed(c, seller, buyer) ==
  /\ seller \in Users
  /\ buyer \in Users
  /\ seller # buyer

----------------------------------------------------------------------------
\* The conversation-start calls.  A call is a sequence of awaited requests;
\* each request is one step, and another client's step may come in between.

NoCall == [op |-> "none", at |-> "returned"]

StartOps == {"handleMessage", "handleMessageSeller", "startConversation"}

Idle(p) == call[p].at = "returned"

\* The id the call client p made last returned, when that was a
\* conversation-start call for listing l with buyer a and seller b.
Returned(p, l, a, b) ==
  IF /\ call[p].op \in StartOps
     /\ call[p].at = "returned"
     /\ call[p].l = l /\ call[p].a = a /\ call[p].b = b
  THEN call[p].res
  ELSE NoConv

\* A conversation-start call of client p: at is where it stands, chk what
\* its existence check came back with, made whether it has inserted a
\* conversation row, res what it returned (NoConv: it reported a failure).
\* same and swap are the ids the client's previous call returned for the
\* same listing and the same, or the swapped, users.
StartCall(p, op, at, l, a, b, chk, made, res) ==
  [op |-> op, at |-> at, l |-> l, a |-> a, b |-> b, chk |-> chk,
   made |-> made, res |-> res,
   same |-> IF Idle(p) THEN Returned(p, l, a, b) ELSE call[p].same,
   swap |-> IF Idle(p) THEN Returned(p, l, b, a) ELSE call[p].swap]

\* handleMessage up to its first request, the lookup.
HandleMessageBegin(p, u, l) ==
  /\ Idle(p)
  /\ UNCHANGED <<schema, convs, parts, msgs, now>>
  /\ IF u = NoUser \/ l = NoListing
     THEN call' = [call EXCEPT ![p] =
            StartCall(p, "handleMessage", "returned", l, u, NoUser, "none", FALSE, NoConv)]
     ELSE IF IsOwner(u, l)
     THEN call' = [call EXCEPT ![p] =
            StartCall(p, "handleMessage", "returned", l, u, sellerOf[l], "none", FALSE, NoConv)]
     ELSE \E failed \in BOOLEAN :
            LET existingConvs == IF failed THEN {}
                                 ELSE HandleMessageLookup(l, u, sellerOf[l])
            IN IF existingConvs # {}
               THEN \E c \in existingConvs :
                      call' = [call EXCEPT ![p] =
                        StartCall(p, "handleMessage", "returned", l, u, sellerOf[l],
                                  "found", FALSE, c)]
               ELSE call' = [call EXCEPT ![p] =
                      StartCall(p, "handleMessage", "insert", l, u, sellerOf[l],
                                IF failed THEN "error" ELSE "empty", FALSE, NoConv)]

\* handleMessage's insert and what follows it.
HandleMessageInsert(p) ==
  /\ call[p].op = "handleMessage"
  /\ call[p].at = "insert"
  /\ UNCHANGED <<schema, parts, msgs>>
  /\ LET k == call[p]
         row == ConvRow(k.l, k.a, k.b, now)
     IN \/ /\ InsertConversationAllowed(row)
           /\ Len(convs) < MaxConvs
           /\ convs' = Append(convs, row)
           /\ now' = now + 1
           /\ call' = [call EXCEPT ![p] =
                StartCall(p, k.op, "returned", k.l, k.a, k.b, k.chk, TRUE, Len(convs) + 1)]
        \/ /\ UNCHANGED <<convs, now>>
           /\ call' = [call EXCEPT ![p] =
                StartCall(p, k.op, "returned", k.l, k.a, k.b, k.chk, FALSE, NoConv)]

\* handleMessageSeller up to its first request, the lookup.  The button that
\* calls it is rendered only when isOwner is false.
HandleMessageSellerBegin(p, u, l) ==
  /\ Idle(p)
  /\ u = NoUser \/ ~IsOwner(u, l)
  /\ UNCHANGED <<schema, convs, parts, msgs, now>>
  /\ IF u = NoUser
     THEN call' = [call EXCEPT ![p] =
            StartCall(p, "handleMessageSeller", "returned", l, u, sellerOf[l],
                      "none", FALSE, NoConv)]
     ELSE \E failed \in BOOLEAN :
            LET existingConversation ==
                  IF failed THEN {}
                  ELSE Single(HandleMessageSellerMatches(l, u, sellerOf[l]))
            IN IF existingConversation # {}
               THEN \E c \in existingConversation :
                      call' = [call EXCEPT ![p] =
                        StartCall(p, "handleMessageSeller", "returned", l, u, sellerOf[l],
                                  "found", FALSE, c)]
               ELSE call' = [call EXCEPT ![p] =
                      StartCall(p, "handleMessageSeller", "insert", l, u, sellerOf[l],
                        IF failed THEN "error"
                        ELSE IF HandleMessageSellerMatches(l, u, sellerOf[l]) = {}
                        THEN "empty" ELSE "many",
                        FALSE, NoConv)]

\* handleMessageSeller's insert and what follows it.
HandleMessageSellerInsert(p) ==
  /\ call[p].op = "handleMessageSeller"
  /\ call[p].at = "insert"
  /\ UNCHANGED <<schema, parts, msgs>>
  /\ LET k == call[p]
         row == ConvRow(k.l, k.a, k.b, now)
     IN \/ /\ InsertConversationAllowed(row)
           /\ Len(convs) < MaxConvs
           /\ convs' = Append(convs, row)
           /\ now' = now + 1
           /\ call' = [call EXCEPT ![p] =
                StartCall(p, k.op, "returned", k.l, k.a, k.b, k.chk, TRUE, Len(convs) + 1)]
        \/ /\ UNCHANGED <<convs, now>>
           /\ call' = [call EXCEPT ![p] =
                StartCall(p, k.op, "returned", k.l, k.a, k.b, k.chk, FALSE, NoConv)]

\* MessagingService.startConversation up to and including its first request,
\* the insert of the conversation row.
StartConversationBegin(p, l, seller, buyer) ==
  /\ Idle(p)
  /\ UNCHANGED <<schema, parts, msgs>>
  /\ LET row == ConvRow(l, NoUser, NoUser, now)
     IN \/ /\ InsertConversationAllowed(row)
           /\ Len(convs) < MaxConvs
           /\ convs' = Append(convs, row)
           /\ now' = now + 1
           /\ call' = [call EXCEPT ![p] =
                StartCall(p, "startConversation", "participants", l, buyer, seller,
                          "none", TRUE, Len(convs) + 1)]
        \/ /\ UNCHANGED <<convs, now>>
           /\ call' = [call EXCEPT ![p] =
                StartCall(p, "startConversation", "returned", l, buyer, seller,
                          "none", FALSE, NoConv)]

\* MessagingService.startConversation's insert of the participants and what
\* follows it.  Until it returns, res holds conversation.id.
\* startConversation without "if (partError) throw partError".
StartConversationParticipantsUnchecked(p) ==
  /\ call[p].op = "startConversation"
  /\ call[p].at = "participants"
  /\ UNCHANGED <<schema, convs, msgs, now>>
  /\ LET k == call[p]
     IN \/ /\ InsertParticipantsAllowed(k.res, k.b, k.a)
           /\ parts' = parts \cup {<<k.res, k.b>>, <<k.res, k.a>>}
           /\ call' = [call EXCEPT ![p] =
                StartCall(p, k.op, "returned", k.l, k.a, k.b, k.chk, TRUE, k.res)]
        \/ /\ UNCHANGED parts
           /\ call' = [call EXCEPT ![p] =
                StartCall(p, k.op, "returned", k.l, k.a, k.b, k.chk, TRUE, k.res)]

StartConversationParticipants(p) ==
  /\ call[p].op = "startConversation"
  /\ call[p].at = "participants"
  /\ UNCHANGED <<schema, convs, msgs, now>>
  /\ LET k == call[p]
     IN \/ /\ InsertParticipantsAllowed(k.res, k.b, k.a)
           /\ parts' = parts \cup {<<k.res, k.b>>, <<k.res, k.a>>}
           /\ call' = [call EXCEPT ![p] =
                StartCall(p, k.op, "returned", k.l, k.a, k.b, k.chk, TRUE, k.res)]
        \/ /\ UNCHANGED parts
           /\ call' = [call EXCEPT ![p] =
                StartCall(p, k.op, "returned", k.l, k.a, k.b, k.chk, TRUE, NoConv)]

----------------------------------------------------------------------------

\* No screen of a conversation is mounted.
NoScreen == [kind |-> "none", id |-> NoConv]

\* A step of a client that has no subscription and no conversation screen.
NoRealtime == UNCHANGED <<channels, screen>>

\* The state of ChatScreen before it is mounted: useState([]), useState(''),
\* useState(false); no request for the messages is under way.
NoView == [fetch |-> "none", data |-> << >>, messages |-> << >>,
           newMessage |-> << >>, sending |-> FALSE]

\* A step that is not one of the chat screen's.
NoChatView == UNCHANGED view

\* A step that touches neither listings nor listing_images.
NoCatalog == UNCHANGED <<listings, images>>

Init ==
  /\ schema \in {"sql", "setup"}
  /\ convs = << >>
  /\ parts = {}
  /\ msgs = << >>
  /\ now = 1
  /\ call = [p \in Procs |-> NoCall]
  /\ channels = << >>
  /\ screen = NoScreen
  /\ view = NoView
  /\ listings = << >>
  /\ images = << >>

StartBegin(p) ==
  \/ \E l \in Listings \cup {NoSuchListing},
        s \in Users \cup {NoSuchUser}, b \in Users \cup {NoSuchUser} :
       StartConversationBegin(p, l, s, b)
  \/ \E u \in Users \cup {NoUser}, l \in Listings \cup {NoListing} :
       HandleMessageBegin(p, u, l)
  \/ \E u \in Users \cup {NoUser}, l \in Listings :
       HandleMessageSellerBegin(p, u, l)

StartStep(p) ==
  \/ StartConversationParticipants(p)
  \/ HandleMessageInsert(p)
  \/ HandleMessageSellerInsert(p)

\* Sequential use: one call after the other.
Next ==
  \/ StartBegin("p1") /\ NoRealtime /\ NoChatView /\ NoCatalog
  \/ StartStep("p1") /\ NoRealtime /\ NoChatView /\ NoCatalog

Spec == Init /\ [][Next]_vars

\* Overlapping use of the listing screen: two clients' calls interleave
\* request by request.
RaceNext ==
  \E p \in Procs :
    \/ /\ \E u \in Users \cup {NoUser}, l \in Listings \cup {NoListing} :
            HandleMessageBegin(p, u, l)
       /\ NoRealtime /\ NoChatView /\ NoCatalog
    \/ HandleMessageInsert(p) /\ NoRealtime /\ NoChatView /\ NoCatalog

RaceSpec == Init /\ [][RaceNext]_vars

----------------------------------------------------------------------------
\* Messages.

\* A conversation id that is no row of conversations.
NoSuchConv == MaxConvs + 1

\* Message texts, as sequences of characters.
Contents == {<<" ">>, <<"a">>, <<" ", "a">>}

\* How far a client's clock may be behind the database clock when it reads
\* new Date() after its insert has come back.
ClockSkews == {0, 2}

\* Users the specifications with messages let start conversations.
ChatUsers == {"u1", "u2"}

RECURSIVE TrimStart(_)
TrimStart(s) == IF s # << >> /\ Head(s) = " " THEN TrimStart(Tail(s)) ELSE s

RECURSIVE TrimEnd(_)
TrimEnd(s) ==
  IF s # << >> /\ s[Len(s)] = " " THEN TrimEnd(SubSeq(s, 1, Len(s) - 1)) ELSE s

\* String.prototype.trim().
Trim(s) == TrimEnd(TrimStart(s))

\* A row of messages whose is_read defaults to TRUE.
MsgRowRead(c, s, content, t) ==
  [conversation_id |-> c, sender_id |-> s, content |-> content,
   created_at |-> t, is_read |-> TRUE]

\* A row of messages.  created_at and is_read take their column defaults,
\* NOW() and FALSE; the "sql" table has no is_read column and the field
\* stays FALSE there.
MsgRow(c, s, content, t) ==
  [conversation_id |-> c, sender_id |-> s, content |-> content,
   created_at |-> t, is_read |-> FALSE]

MessagesOf(c) == {m \in MsgIds : msgs[m].conversation_id = c}

\* The policies of the "sql" script: a user sees, and inserts, messages of
\* the conversations whose buyer_id or seller_id the user is, and inserts
\* them only under the user's own sender_id.
SelectPolicy(auth, c) ==
  /\ c \in ConvIds
  /\ auth # NoUser
  /\ auth \in {convs[c].buyer_id, convs[c].seller_id}

InsertPolicy(auth, c, s) == SelectPolicy(auth, c) /\ s = auth

\* INSERT into messages: foreign keys on conversation_id and sender_id, and
\* the insert policy where row level security is on.
InsertMessageAllowed(auth, c, s) ==
  /\ c \in ConvIds
  /\ s \in Users
  /\ schema = "sql" => InsertPolicy(auth, c, s)

\* The messages a SELECT by auth on conversation c sees.
VisibleMessages(auth, c) ==
  IF schema = "sql" /\ ~SelectPolicy(auth, c) THEN {} ELSE MessagesOf(c)

\* The sequences that hold each element of S once, in any order.
Unsorted(S, key) ==
  {q \in [1..Cardinality(S) -> S] :
     \A i, j \in 1..Cardinality(S) : i # j => q[i] # q[j]}

\* The sequences that hold each element of S once, by key ascending; more
\* than one when keys tie.
SortedAsc(S, key) ==
  {q \in [1..Cardinality(S) -> S] :
     /\ \A i, j \in 1..Cardinality(S) : i # j => q[i] # q[j]
     /\ \A i, j \in 1..Cardinality(S) : i < j => key[q[i]] <= key[q[j]]}

SortedDesc(S, key) ==
  {q \in [1..Cardinality(S) -> S] :
     /\ \A i, j \in 1..Cardinality(S) : i # j => q[i] # q[j]
     /\ \A i, j \in 1..Cardinality(S) : i < j => key[q[i]] >= key[q[j]]}

\* The newest of all stored messages: the query without its conversation
\* filter.
LatestOfAll(S) ==
  IF MsgIds = {} THEN NoMsg
  ELSE CHOOSE m \in MsgIds : \A n \in MsgIds : msgs[n].created_at <= msgs[m].created_at

\* The message with the greatest created_at among S, NoMsg when S is empty:
\* order by created_at descending, limit 1.
Latest(S) ==
  IF S = {} THEN NoMsg
  ELSE CHOOSE m \in S : \A n \in S : msgs[n].created_at <= msgs[m].created_at

\* What UPDATE messages SET is_read = TRUE WHERE conversation_id = c AND
\* sender_id <> r makes of the rows ms, with every mark read.
MarkReadWholeConversation(ms, c, r) ==
  [m \in DOMAIN ms |->
     IF ms[m].conversation_id = c
     THEN [ms[m] EXCEPT !.is_read = TRUE]
     ELSE ms[m]]

\* The same update, that also clears the flag on the messages r has sent.
MarkReadClearsOwn(ms, c, r) ==
  [m \in DOMAIN ms |->
     IF ms[m].conversation_id # c THEN ms[m]
     ELSE [ms[m] EXCEPT !.is_read = (ms[m].sender_id # r)]]

\* The same with the flag flipped instead of set.
MarkReadToggle(ms, c, r) ==
  [m \in DOMAIN ms |->
     IF ms[m].conversation_id = c /\ ms[m].sender_id # r
     THEN [ms[m] EXCEPT !.is_read = ~ms[m].is_read]
     ELSE ms[m]]

\* An update that also stamps the rows it marks with the time of the update.
MarkReadStampsRows(ms, c, r) ==
  [m \in DOMAIN ms |->
     IF ms[m].conversation_id = c /\ ms[m].sender_id # r
     THEN [ms[m] EXCEPT !.is_read = TRUE, !.created_at = now]
     ELSE ms[m]]

\* What UPDATE messages SET is_read = TRUE WHERE conversation_id = c AND
\* sender_id <> r makes of the rows ms.
MarkRead(ms, c, r) ==
  [m \in DOMAIN ms |->
     IF ms[m].conversation_id = c /\ ms[m].sender_id # r
     THEN [ms[m] EXCEPT !.is_read = TRUE]
     ELSE ms[m]]

MsgOps == {"sendMessage", "chatSendMessage"}

\* The message the call client p made last has stored and returned, NoMsg
\* when that call was no send or returned no message.
LastSent(p) ==
  IF call[p].op = "sendMessage" /\ call[p].at = "returned"
  THEN call[p].res
  ELSE NoMsg

\* A send of client p: u is the sender_id, auth the signed-in user of the
\* session, res the message returned (NoMsg: none), ack what the caller is
\* told.  n0 and upd0 are the number of message rows and the conversation's
\* updated_at when the call began.
SendCall(p, op, at, auth, c, u, content, res, ack) ==
  [op |-> op, at |-> at, auth |-> auth, c |-> c, u |-> u, content |-> content,
   res |-> res, ack |-> ack,
   n0 |-> IF Idle(p) THEN Len(msgs) ELSE call[p].n0,
   upd0 |-> IF ~Idle(p) THEN call[p].upd0
            ELSE IF c \in ConvIds THEN convs[c].updated_at ELSE 0]

\* MessagingService.sendMessage up to and including its first request, the
\* insert with its select of the new row.
SendMessageInsert(p, auth, c, s, content) ==
  /\ Idle(p)
  /\ UNCHANGED <<schema, convs, parts>>
  /\ \/ /\ InsertMessageAllowed(auth, c, s)
        /\ Len(msgs) < MaxMsgs
        /\ msgs' = Append(msgs, MsgRow(c, s, content, now))
        /\ now' = now + 1
        /\ call' = [call EXCEPT ![p] =
             SendCall(p, "sendMessage", "update", auth, c, s, content,
                      Len(msgs) + 1, "pending")]
     \/ /\ UNCHANGED <<msgs, now>>
        /\ call' = [call EXCEPT ![p] =
             SendCall(p, "sendMessage", "returned", auth, c, s, content,
                      NoMsg, "null")]

\* MessagingService.sendMessage's update of conversations.updated_at to the
\* client's clock, and what follows it: the update's error is not looked at,
\* a thrown request ends in the catch.
SendMessageUpdate(p) ==
  /\ call[p].op = "sendMessage"
  /\ call[p].at = "update"
  /\ UNCHANGED <<schema, parts, msgs, now>>
  /\ LET k == call[p]
     IN \/ \E skew \in ClockSkews :
             /\ convs' = [convs EXCEPT ![k.c].updated_at = now - skew]
             /\ call' = [call EXCEPT ![p] =
                  SendCall(p, k.op, "returned", k.auth, k.c, k.u, k.content,
                           k.res, "message")]
        \/ /\ UNCHANGED convs
           /\ call' = [call EXCEPT ![p] =
                SendCall(p, k.op, "returned", k.auth, k.c, k.u, k.content,
                         k.res, "message")]
        \/ /\ UNCHANGED convs
           /\ call' = [call EXCEPT ![p] =
                SendCall(p, k.op, "returned", k.auth, k.c, k.u, k.content,
                         k.res, "null")]

\* The rows conversations_with_details has for conversation c: one in the
\* "sql" view, one per participant row in the "setup" view.
ViewRowCount(c) ==
  IF schema = "sql" THEN 1
  ELSE IF {u \in Users : <<c, u>> \in parts} = {} THEN 1
  ELSE Cardinality({u \in Users : <<c, u>> \in parts})

\* ChatScreen.fetchConversation can have set conversation: .single() on the
\* view found exactly one row.
ChatLoaded(c) == c \in ConvIds /\ ViewRowCount(c) = 1

\* ChatScreen.sendMessage, with u the signed-in user (NoUser: currentUser is
\* null), c the conversation of the route, loaded whether conversation is
\* set, and draft the text typed.
ChatSendMessage(p, u, c, loaded, draft) ==
  /\ Idle(p)
  /\ loaded => ChatLoaded(c)
  /\ UNCHANGED <<schema, convs, parts>>
  /\ IF Trim(draft) = << >> \/ u = NoUser \/ ~loaded
     THEN /\ UNCHANGED <<msgs, now>>
          /\ call' = [call EXCEPT ![p] =
               SendCall(p, "chatSendMessage", "returned", u, c, u, draft,
                        NoMsg, "ignored")]
     ELSE \/ /\ InsertMessageAllowed(u, c, u)
             /\ Len(msgs) < MaxMsgs
             /\ msgs' = Append(msgs, MsgRow(c, u, Trim(draft), now))
             /\ now' = now + 1
             /\ call' = [call EXCEPT ![p] =
                  SendCall(p, "chatSendMessage", "returned", u, c, u, draft,
                           Len(msgs) + 1, "sent")]
          \/ /\ UNCHANGED <<msgs, now>>
             /\ call' = [call EXCEPT ![p] =
                  SendCall(p, "chatSendMessage", "returned", u, c, u, draft,
                           NoMsg, "alert")]

\* A read of client p.  ok is whether the request came back without error,
\* res the list handed to the caller, prev the message the client's
\* previous call has sent (NoMsg: it sent none).
ReadCall(p, op, auth, c, ok, res) ==
  [op |-> op, at |-> "returned", auth |-> auth, c |-> c, ok |-> ok,
   res |-> res, prev |-> LastSent(p)]

\* MessagingService.getMessages: the ids of the messages of c, by created_at
\* ascending; [] when the request fails.
GetMessages(p, auth, c) ==
  /\ Idle(p)
  /\ UNCHANGED <<schema, convs, parts, msgs, now>>
  /\ \/ \E q \in SortedAsc(VisibleMessages(auth, c),
                           [m \in MsgIds |-> msgs[m].created_at]) :
          call' = [call EXCEPT ![p] = ReadCall(p, "getMessages", auth, c, TRUE, q)]
     \/ call' = [call EXCEPT ![p] = ReadCall(p, "getMessages", auth, c, FALSE, << >>)]

\* ChatScreen.fetchMessages, with auth the signed-in user: the rows of the
\* view messages_with_sender for c, by created_at ascending.  Only the "sql"
\* script creates the view; whether the view passes the caller's row level
\* security on to messages is the database's setting.  When the request
\* fails the list on screen stays as it was (res is empty here).
ChatFetchMessages(p, auth, c) ==
  /\ Idle(p)
  /\ UNCHANGED <<schema, convs, parts, msgs, now>>
  /\ \/ /\ schema = "sql"
        /\ \E rows \in {MessagesOf(c), VisibleMessages(auth, c)} :
             \E q \in SortedAsc(rows, [m \in MsgIds |-> msgs[m].created_at]) :
               call' = [call EXCEPT ![p] =
                 ReadCall(p, "fetchMessages", auth, c, TRUE, q)]
     \/ call' = [call EXCEPT ![p] = ReadCall(p, "fetchMessages", auth, c, FALSE, << >>)]

\* The conversations a list query returns: the filter on the embedded
\* conversation_participants narrows the embedded rows, not the
\* conversations.
ListedConvs(u) == ConvIds

\* MessagingService.getConversations: one entry per row of the view, by
\* updated_at descending, each with the first row of its embedded messages,
\* which come in no stated order; [] when the request fails, as it does on
\* the "sql" table, which has no is_read to select.
GetConversations(p, u) ==
  /\ Idle(p)
  /\ UNCHANGED <<schema, convs, parts, msgs, now>>
  /\ \/ /\ schema = "setup"
        /\ LET rows == {r \in ListedConvs(u) \X (1..2) : r[2] <= ViewRowCount(r[1])}
           IN \E q \in SortedDesc(rows, [r \in rows |-> convs[r[1]].updated_at]),
                 first \in [ConvIds -> MsgIds \cup {NoMsg}] :
                /\ \A c \in ConvIds :
                     IF MessagesOf(c) = {} THEN first[c] = NoMsg
                     ELSE first[c] \in MessagesOf(c)
                /\ call' = [call EXCEPT ![p] =
                     ReadCall(p, "getConversations", u, NoConv, TRUE,
                       [i \in DOMAIN q |->
                          [id |-> q[i][1], latest_message |-> first[q[i][1]]]])]
     \/ call' = [call EXCEPT ![p] =
          ReadCall(p, "getConversations", u, NoConv, FALSE, << >>)]

\* fetchConversations of the conversation list screen, with u the signed-in
\* user: the conversations by created_at descending, each with the message
\* a second query finds first by created_at descending.  When a request
\* fails the list on screen stays as it was (res is empty here).
FetchConversations(p, u) ==
  /\ Idle(p)
  /\ UNCHANGED <<schema, convs, parts, msgs, now>>
  /\ IF u = NoUser
     THEN call' = [call EXCEPT ![p] =
            ReadCall(p, "fetchConversations", u, NoConv, FALSE, << >>)]
     ELSE \/ \E q \in SortedDesc(ListedConvs(u),
                                 [c \in ConvIds |-> convs[c].created_at]) :
               call' = [call EXCEPT ![p] =
                 ReadCall(p, "fetchConversations", u, NoConv, TRUE,
                   [i \in DOMAIN q |->
                      [id |-> q[i],
                       latest_message |-> Latest(VisibleMessages(u, q[i]))]])]
          \/ call' = [call EXCEPT ![p] =
               ReadCall(p, "fetchConversations", u, NoConv, FALSE, << >>)]

\* A markMessagesAsRead call of client p for conversation c and user r: res
\* is what it returned, twice whether the client's previous call was the
\* same call and returned true.
MarkCall(p, c, r, res) ==
  [op |-> "markMessagesAsRead", at |-> "returned", c |-> c, u |-> r,
   res |-> res,
   twice |-> /\ call[p].op = "markMessagesAsRead"
             /\ call[p].c = c /\ call[p].u = r /\ call[p].res]

\* MessagingService.markMessagesAsRead.  The "sql" table has no is_read: the
\* update comes back with an error there.
MarkMessagesAsRead(p, c, r) ==
  /\ Idle(p)
  /\ UNCHANGED <<schema, convs, parts, now>>
  /\ \/ /\ schema = "setup"
        /\ msgs' = MarkRead(msgs, c, r)
        /\ call' = [call EXCEPT ![p] = MarkCall(p, c, r, TRUE)]
     \/ /\ UNCHANGED msgs
        /\ call' = [call EXCEPT ![p] = MarkCall(p, c, r, FALSE)]

\* Conversation-start calls while fewer than max conversation rows exist.
ChatStart(p, max) ==
  /\ Len(convs) < max
  /\ \/ \E u \in ChatUsers, l \in Listings : HandleMessageBegin(p, u, l)
     \/ \E l \in Listings, s \in ChatUsers, b \in ChatUsers :
          StartConversationBegin(p, l, s, b)

ChatStartStep(p) ==
  \/ HandleMessageInsert(p)
  \/ StartConversationParticipants(p)

\* Sends with any session, sender, conversation and text.
SendStep(p) ==
  \/ \E auth \in Users, c \in ConvIds \cup {NoSuchConv}, s \in Users,
        content \in Contents :
       SendMessageInsert(p, auth, c, s, content)
  \/ SendMessageUpdate(p)
  \/ \E u \in Users \cup {NoUser}, c \in ConvIds \cup {NoSuchConv},
        loaded \in BOOLEAN, draft \in Contents :
       ChatSendMessage(p, u, c, loaded, draft)

\* Sends of a text by a signed-in user under the user's own id.
OwnSendStep(p) ==
  \/ \E s \in Users, c \in ConvIds : SendMessageInsert(p, s, c, s, <<"a">>)
  \/ SendMessageUpdate(p)

ReadStep(p) ==
  \/ \E auth \in Users, c \in ConvIds \cup {NoSuchConv} : GetMessages(p, auth, c)
  \/ \E auth \in Users, c \in ConvIds \cup {NoSuchConv} :
       ChatFetchMessages(p, auth, c)
  \/ \E u \in Users : GetConversations(p, u)
  \/ \E u \in Users \cup {NoUser} : FetchConversations(p, u)

MarkStep(p) ==
  \E c \in ConvIds \cup {NoSuchConv}, r \in Users : MarkMessagesAsRead(p, c, r)

\* Sequential use: conversation starts and sends.
SendNext ==
  \/ ChatStart("p1", MaxSendConvs) /\ NoRealtime /\ NoChatView /\ NoCatalog
  \/ ChatStartStep("p1") /\ NoRealtime /\ NoChatView /\ NoCatalog
  \/ SendStep("p1") /\ NoRealtime /\ NoChatView /\ NoCatalog

SendSpec == Init /\ [][SendNext]_vars

\* Sequential use: conversation starts, sends and the list operations.
ListNext ==
  \/ ChatStart("p1", MaxSendConvs) /\ NoRealtime /\ NoChatView /\ NoCatalog
  \/ ChatStartStep("p1") /\ NoRealtime /\ NoChatView /\ NoCatalog
  \/ OwnSendStep("p1") /\ NoRealtime /\ NoChatView /\ NoCatalog
  \/ ReadStep("p1") /\ NoRealtime /\ NoChatView /\ NoCatalog

ListSpec == Init /\ [][ListNext]_vars

\* Conversation starts from the listing screen, by any user, while fewer
\* than max conversation rows exist.
ScreenStart(p, max) ==
  /\ Len(convs) < max
  /\ \E u \in Users, l \in Listings : HandleMessageBegin(p, u, l)

ConvListStep(p) ==
  \/ \E u \in Users : GetConversations(p, u)
  \/ \E u \in Users \cup {NoUser} : FetchConversations(p, u)

\* Sequential use: conversation starts, sends and the lists of conversations,
\* with more than one conversation.
OrderNext ==
  \/ ScreenStart("p1", MaxChatConvs) /\ NoRealtime /\ NoChatView /\ NoCatalog
  \/ HandleMessageInsert("p1") /\ NoRealtime /\ NoChatView /\ NoCatalog
  \/ OwnSendStep("p1") /\ NoRealtime /\ NoChatView /\ NoCatalog
  \/ ConvListStep("p1") /\ NoRealtime /\ NoChatView /\ NoCatalog

OrderSpec == Init /\ [][OrderNext]_vars

\* Sequential use: conversation starts, sends and markMessagesAsRead.
MarkNext ==
  \/ ChatStart("p1", MaxChatConvs) /\ NoRealtime /\ NoChatView /\ NoCatalog
  \/ ChatStartStep("p1") /\ NoRealtime /\ NoChatView /\ NoCatalog
  \/ OwnSendStep("p1") /\ NoRealtime /\ NoChatView /\ NoCatalog
  \/ MarkStep("p1") /\ NoRealtime /\ NoChatView /\ NoCatalog

MarkSpec == Init /\ [][MarkNext]_vars

----------------------------------------------------------------------------
\* The live change feed (postgres_changes) and the conversation screens.

\* Channels that may be created.
MaxChannels == 2

\* Channels that may be created while messages are marked read.
MaxFeedChannels == 1

\* Users who send and mark messages while subscriptions are open.
FeedUsers == {"u1", "u2"}

\* The change events one step of client p commits, in commit order: a row
\* inserted into or updated in one of the three tables.
Changes(p) ==
  LET k == call'[p]
      event(type, table, id, c) ==
        [type |-> type, table |-> table, id |-> id, conversation_id |-> c]
  IN IF Len(msgs') > Len(msgs)
     THEN << event("INSERT", "messages", Len(msgs'),
                   msgs'[Len(msgs')].conversation_id) >>
     ELSE IF k.op = "markMessagesAsRead" /\ k.res
     THEN SelectSeq([m \in 1..Len(msgs) |->
                       event("UPDATE", "messages", m, msgs[m].conversation_id)],
                    LAMBDA e : e.conversation_id = k.c
                                 /\ msgs[e.id].sender_id # k.u)
     ELSE IF Len(convs') > Len(convs)
     THEN << event("INSERT", "conversations", Len(convs'), NoConv) >>
     ELSE IF convs' # convs
     THEN << event("UPDATE", "conversations", k.c, NoConv) >>
     ELSE IF parts' # parts
     THEN << event("INSERT", "conversation_participants", k.res, k.res),
             event("INSERT", "conversation_participants", k.res, k.res) >>
     ELSE << >>

\* The filter of the three subscriptions: INSERT events of public.messages
\* with conversation_id = c.
MatchesConversationOnly(e, c) ==
  e.table = "messages" /\ e.conversation_id = c

Matches(e, c) ==
  e.type = "INSERT" /\ e.table = "messages" /\ e.conversation_id = c

\* The realtime server: every change a step commits is queued on each
\* subscribed channel whose filter it passes.
Publish(p) ==
  /\ channels' =
       [ch \in DOMAIN channels |->
          IF channels[ch].live
          THEN [channels[ch] EXCEPT
                  !.queue = @ \o SelectSeq(Changes(p),
                                           LAMBDA e : Matches(e, channels[ch].c))]
          ELSE channels[ch]]
  /\ UNCHANGED screen

\* .channel(...).on('postgres_changes', filter, callback).subscribe()
Channel(owner, c) ==
  [owner |-> owner, c |-> c, live |-> TRUE, queue |-> << >>, calls |-> << >>]

\* subscription.unsubscribe() / supabase.removeChannel(channel)
Unsubscribe(chs, owner) ==
  [ch \in DOMAIN chs |->
     IF chs[ch].owner = owner
     THEN [chs[ch] EXCEPT !.live = FALSE, !.queue = << >>]
     ELSE chs[ch]]

\* MessagingService.subscribeToMessages(c, callback)
SubscribeToMessages(c) ==
  /\ Len(channels) < MaxChannels
  /\ channels' = Append(channels, Channel("subscribeToMessages", c))
  /\ UNCHANGED <<schema, convs, parts, msgs, now, call, screen>>

\* The effect of ChatScreen on [id]: setupRealtimeSubscription() is called
\* and what it returns is dropped, the effect has no cleanup.
ChatScreenEffect(c) ==
  /\ screen.kind \in {"none", "ChatScreen"}
  /\ screen.id # c
  /\ Len(channels) < MaxChannels
  /\ screen' = [kind |-> "ChatScreen", id |-> c]
  /\ channels' = Append(channels, Channel("ChatScreen", c))
  /\ UNCHANGED <<schema, convs, parts, msgs, now, call>>

\* The effect of MessageScreen on [id]: the cleanup of the previous run
\* unsubscribes, then setupRealtimeMessages() subscribes.
MessageScreenEffect(c) ==
  /\ screen.kind \in {"none", "MessageScreen"}
  /\ screen.id # c
  /\ Len(channels) < MaxChannels
  /\ screen' = [kind |-> "MessageScreen", id |-> c]
  /\ channels' = Append(Unsubscribe(channels, "MessageScreen"),
                        Channel("MessageScreen", c))
  /\ UNCHANGED <<schema, convs, parts, msgs, now, call>>

\* The screen is left: the cleanup of the last effect runs, if it has one.
ScreenUnmount ==
  /\ screen # NoScreen
  /\ screen' = NoScreen
  /\ channels' = IF screen.kind = "MessageScreen"
                 THEN Unsubscribe(channels, "MessageScreen")
                 ELSE channels
  /\ UNCHANGED <<schema, convs, parts, msgs, now, call>>

\* The client receives the next event of a channel and calls the callback
\* with payload.new, or the event is lost on the way.
Deliver(ch) ==
  /\ channels[ch].live
  /\ channels[ch].queue # << >>
  /\ \/ channels' = [channels EXCEPT
                       ![ch].queue = Tail(@),
                       ![ch].calls = Append(@, Head(channels[ch].queue).id)]
     \/ channels' = [channels EXCEPT ![ch].queue = Tail(@)]
  /\ UNCHANGED <<schema, convs, parts, msgs, now, call, screen>>

\* Conversation starts by startConversation between two users.
FeedStart(p) ==
  /\ Len(convs) < MaxChatConvs
  /\ \E l \in Listings, s \in FeedUsers :
       \E b \in FeedUsers \ {s} : StartConversationBegin(p, l, s, b)

\* Sends by a user under the user's own id.
FeedSend(p) ==
  \/ \E s \in FeedUsers, c \in ConvIds : SendMessageInsert(p, s, c, s, <<"a">>)
  \/ SendMessageUpdate(p)

FeedMark(p) ==
  \E c \in ConvIds, r \in FeedUsers : MarkMessagesAsRead(p, c, r)

\* One client writes while subscriptions of the service and of ChatScreen
\* are open.
FeedNext ==
  \/ FeedStart("p1") /\ Publish("p1") /\ NoChatView /\ NoCatalog
  \/ StartConversationParticipants("p1") /\ Publish("p1") /\ NoChatView /\ NoCatalog
  \/ FeedSend("p1") /\ Publish("p1") /\ NoChatView /\ NoCatalog
  \/ FeedMark("p1") /\ Publish("p1") /\ NoChatView /\ NoCatalog
  \/ Len(channels) < MaxFeedChannels /\ \E c \in ConvIds : SubscribeToMessages(c) /\ NoChatView /\ NoCatalog
  \/ Len(channels) < MaxFeedChannels /\ \E c \in ConvIds : ChatScreenEffect(c) /\ NoChatView /\ NoCatalog
  \/ \E ch \in DOMAIN channels : Deliver(ch) /\ NoChatView /\ NoCatalog

FeedSpec == Init /\ [][FeedNext]_vars

\* One client writes while a conversation screen is shown, moved to
\* another conversation and left.
ScreenNext ==
  \/ FeedStart("p1") /\ Publish("p1") /\ NoChatView /\ NoCatalog
  \/ StartConversationParticipants("p1") /\ Publish("p1") /\ NoChatView /\ NoCatalog
  \/ FeedSend("p1") /\ Publish("p1") /\ NoChatView /\ NoCatalog
  \/ \E c \in ConvIds : ChatScreenEffect(c) /\ NoChatView /\ NoCatalog
  \/ \E c \in ConvIds : MessageScreenEffect(c) /\ NoChatView /\ NoCatalog
  \/ ScreenUnmount /\ NoChatView /\ NoCatalog
  \/ \E ch \in DOMAIN channels : Deliver(ch) /\ NoChatView /\ NoCatalog

ScreenSpec == Init /\ [][ScreenNext]_vars

----------------------------------------------------------------------------
\* Listings: the form of CreateListing.

\* Listing rows the store may hold.
MaxListingRows == 1

\* Characters a price text is made of, and its greatest length.
MaxPriceLen == 2

\* Images picked for a listing.
MaxPicked == 1

\* A step that touches nothing of conversations, messages and screens.
NoMessaging == UNCHANGED <<schema, convs, parts, msgs, now, channels, screen, view>>

\* useState<number | undefined>(undefined), useState<string | undefined>(undefined)
NoCategory == -1
NoCondition == "<undefined>"

Titles == {<< >>, <<" ">>, <<"t">>}
Descriptions == {<< >>, <<"d">>}
CategoryIds == {NoCategory, 0, 1}
ConditionTexts == {NoCondition, "", "new", "good", "fair", "poor", "mint"}
InfinityText == <<"I", "n", "f", "i", "n", "i", "t", "y">>
PriceChars == {" ", "-", "0", "5", "a"}
PriceTexts ==
  UNION {[1..n -> PriceChars] : n \in 0..MaxPriceLen} \cup {InfinityText}

\* A JavaScript number: a finite value, NaN or Infinity; null is what
\* JSON.stringify makes of the last two.
Finite(v) == [kind |-> "finite", v |-> v]
NaN == [kind |-> "NaN", v |-> 0]
Infinity == [kind |-> "Infinity", v |-> 0]
Null == [kind |-> "null", v |-> 0]

DigitValue(ch) == IF ch = "5" THEN 5 ELSE 0

RECURSIVE DigitsValue(_)
DigitsValue(d) ==
  IF d = << >> THEN 0
  ELSE 10 * DigitsValue(SubSeq(d, 1, Len(d) - 1)) + DigitValue(d[Len(d)])

\* Number(text): white space is trimmed, the empty text is 0, a text of
\* digits with an optional sign is its value, "Infinity" is Infinity and
\* anything else is NaN.
NumberOf(text) ==
  LET t == Trim(text)
      neg == t # << >> /\ Head(t) = "-"
      d == IF neg THEN Tail(t) ELSE t
  IN IF t = << >> THEN Finite(0)
     ELSE IF t = InfinityText THEN Infinity
     ELSE IF d # << >> /\ \A i \in DOMAIN d : d[i] \in {"0", "5"}
     THEN Finite(IF neg THEN 0 - DigitsValue(d) ELSE DigitsValue(d))
     ELSE NaN

\* isNaN(n) || n <= 0
IsNaNOrNotPositive(n) == n.kind = "NaN" \/ (n.kind = "finite" /\ n.v <= 0)

\* The number as the request body carries it.
Json(n) == IF n.kind = "finite" THEN n ELSE Null

validConditions == {"new", "good", "fair", "poor"}

\* The submission a client made last: the price text of the form and the
\* alert the user got.
SubmitCall(p, price, res) ==
  [op |-> "submitListing", at |-> "returned", price |-> price, res |-> res]

\* CreateListing.submitListing with the form's state, the signed-in user
\* and the number of picked images.
SubmitListing(p, title, description, price, categoryId, condition, user, picked) ==
  /\ Idle(p)
  /\ Len(listings) < MaxListingRows
  /\ NoMessaging
  /\ LET return(res) ==
           call' = [call EXCEPT ![p] =
             SubmitCall(p, price, res)]
     IN IF \/ title = << >> \/ description = << >> \/ price = << >>
           \/ categoryId \in {NoCategory, 0}
           \/ condition \in {NoCondition, ""}
        THEN return("required") /\ UNCHANGED <<listings, images>>
        ELSE IF IsNaNOrNotPositive(NumberOf(price))
        THEN return("price") /\ UNCHANGED <<listings, images>>
        ELSE IF condition \notin validConditions
        THEN return("condition") /\ UNCHANGED <<listings, images>>
        ELSE IF user = NoUser
        THEN return("login") /\ UNCHANGED <<listings, images>>
        ELSE \/ /\ listings' = Append(listings,
                     [title |-> title, description |-> description,
                      price |-> Json(NumberOf(price)), category_id |-> categoryId,
                      condition |-> condition, seller_id |-> user])
                /\ \E saved \in 0..picked :
                     images' = images \o
                       [i \in 1..saved |->
                          [listing_id |-> Len(listings) + 1, file_path |-> <<"publicUrl">>]]
                /\ return("created")
             \/ return("failed") /\ UNCHANGED <<listings, images>>

ListingNext ==
  \E title \in Titles, description \in Descriptions, price \in PriceTexts,
     categoryId \in CategoryIds, condition \in ConditionTexts,
     user \in {"u1", NoUser}, picked \in 0..MaxPicked :
    SubmitListing("p1", title, description, price, categoryId, condition, user, picked)

ListingSpec == Init /\ [][ListingNext]_vars

----------------------------------------------------------------------------
\* Listing images: fixListingImages.

\* Listings and listing_images rows the store holds when the fix starts.
MaxFixListings == 2
MaxImageRows == 2

\* File paths of stored image rows, as sequences of pieces of text.
FilePaths == {<< >>, <<" ">>, <<"undefined">>, <<"null">>, <<"a.jpg">>}

\* https://via.placeholder.com/400x300/...?text=<title>
placeholderUrl == <<"https://via.placeholder.com">>

\* img.file_path && img.file_path.trim() !== '' &&
\* img.file_path !== 'undefined' && img.file_path !== 'null'
ValidPath(path) ==
  /\ path # << >>
  /\ Trim(path) # << >>
  /\ path # <<"undefined">>
  /\ path # <<"null">>

\* The rows of listing_images of listing l, in table order.
ImagesOf(rows, l) == SelectSeq(rows, LAMBDA r : r.listing_id = l)

\* delete().eq('listing_id', l)
WithoutImagesOf(rows, l) == SelectSeq(rows, LAMBDA r : r.listing_id # l)

hasValidImages(rows) == \E i \in DOMAIN rows : ValidPath(rows[i].file_path)

FixInit ==
  /\ schema = "setup"
  /\ convs = << >>
  /\ parts = {}
  /\ msgs = << >>
  /\ now = 1
  /\ call = [p \in Procs |-> NoCall]
  /\ channels = << >>
  /\ screen = NoScreen
  /\ view = NoView
  /\ \E n \in 1..MaxFixListings :
       /\ listings = [l \in 1..n |->
                        [title |-> <<"t">>, description |-> <<"d">>,
                         price |-> Finite(5), category_id |-> 1,
                         condition |-> "new", seller_id |-> "u1"]]
       /\ \E k \in 0..MaxImageRows :
            images \in [1..k -> [listing_id : 1..n, file_path : FilePaths]]

FixCall(p, at, i, all, res) ==
  [op |-> "fixListingImages", at |-> at, i |-> i, all |-> all, res |-> res,
   images0 |-> IF call[p] = NoCall THEN images ELSE call[p].images0]

\* fixListingImages: the select of all listings.  The function is run once
\* on each store FixInit draws.
FixBegin(p) ==
  /\ call[p] = NoCall
  /\ NoMessaging
  /\ UNCHANGED <<listings, images>>
  /\ \/ call' = [call EXCEPT ![p] = FixCall(p, "loop", 1, Len(listings), FALSE)]
     \/ call' = [call EXCEPT ![p] = FixCall(p, "returned", 1, 0, FALSE)]

\* One turn of the loop: the select of the listing's images, whose error is
\* not looked at, and for a listing without a valid image the delete, whose
\* result is not looked at, and the insert, whose error is logged; or one
\* of the requests throws.
FixListing(p) ==
  /\ call[p].op = "fixListingImages"
  /\ call[p].at = "loop"
  /\ call[p].i <= call[p].all
  /\ NoMessaging
  /\ UNCHANGED listings
  /\ LET k == call[p]
         next == [call EXCEPT ![p] = FixCall(p, "loop", k.i + 1, k.all, FALSE)]
     IN \/ \E selected \in BOOLEAN :
             IF selected /\ hasValidImages(ImagesOf(images, k.i))
             THEN UNCHANGED images /\ call' = next
             ELSE \E deleted \in BOOLEAN, inserted \in BOOLEAN :
                    /\ images' =
                         (IF deleted THEN WithoutImagesOf(images, k.i) ELSE images)
                           \o (IF inserted
                               THEN <<[listing_id |-> k.i, file_path |-> placeholderUrl]>>
                               ELSE << >>)
                    /\ call' = next
        \/ /\ \E deleted \in BOOLEAN :
                images' = (IF deleted THEN WithoutImagesOf(images, k.i) ELSE images)
           /\ call' = [call EXCEPT ![p] = FixCall(p, "returned", k.i, k.all, FALSE)]

\* The loop is over: return true.
FixReturn(p) ==
  /\ call[p].op = "fixListingImages"
  /\ call[p].at = "loop"
  /\ call[p].i > call[p].all
  /\ NoMessaging
  /\ UNCHANGED <<listings, images>>
  /\ call' = [call EXCEPT ![p] = FixCall(p, "returned", call[p].i, call[p].all, TRUE)]

FixNext ==
  \/ FixBegin("p1")
  \/ FixListing("p1")
  \/ FixReturn("p1")

FixSpec == FixInit /\ [][FixNext]_vars

----------------------------------------------------------------------------
\* ChatScreen: the list of messages on screen, the draft and the send.

\* Conversations that exist while a chat screen is open.
MaxViewConvs == 1

\* Texts typed into the input, '' among them.
Drafts == {<< >>, <<" ">>, <<"a">>}

\* currentUser of the open screen: the screen is opened from the listing by
\* the user who started the conversation there.
ViewUser == convs[screen.id].buyer_id

\* The other user of the conversation on screen.
ViewPeer == convs[screen.id].seller_id

\* ChatScreen is mounted on conversation c: the effect calls fetchMessages,
\* whose request leaves, and setupRealtimeSubscription.
ViewMount(c) ==
  /\ screen = NoScreen
  /\ view = NoView
  /\ ChatScreenEffect(c)
  /\ view' = [view EXCEPT !.fetch = "sent"]

\* MessageScreen is mounted on conversation c.  Its list of messages is
\* fetched anew on each event and is not followed here; newMessage and
\* sending are those of this screen.
ViewMountMessageScreen(c) ==
  /\ screen = NoScreen
  /\ view = NoView
  /\ MessageScreenEffect(c)
  /\ UNCHANGED view

\* An event of MessageScreen's channel arrives.
ViewDeliverMessageScreen(ch) ==
  /\ channels[ch].owner = "MessageScreen"
  /\ Deliver(ch)
  /\ UNCHANGED view

\* The database answers the request of fetchMessages: the rows of
\* messages_with_sender for the conversation as they are now, by created_at
\* ascending, or an error.
ViewFetchRead ==
  /\ view.fetch = "sent"
  /\ UNCHANGED <<schema, convs, parts, msgs, now, call, channels, screen>>
  /\ \/ /\ schema = "sql"
        /\ \E rows \in {MessagesOf(screen.id), VisibleMessages(ViewUser, screen.id)} :
             \E q \in SortedAsc(rows, [m \in MsgIds |-> msgs[m].created_at]) :
               view' = [view EXCEPT !.fetch = "answered", !.data = q]
     \/ view' = [view EXCEPT !.fetch = "failed"]

\* fetchMessages goes on after its await: setMessages(data || []) when the
\* request brought no error, nothing otherwise.
ViewFetchDone ==
  /\ view.fetch \in {"answered", "failed"}
  /\ UNCHANGED <<schema, convs, parts, msgs, now, call, channels, screen>>
  /\ view' = [view EXCEPT
                !.fetch = "done",
                !.messages = IF view.fetch = "answered" THEN view.data ELSE @]

\* An event of the screen's channel arrives: the callback does
\* setMessages(prev => [...prev, payload.new]); or the event is lost.
ViewDeliver(ch) ==
  /\ channels[ch].owner = "ChatScreen"
  /\ Deliver(ch)
  /\ view' = [view EXCEPT
                !.messages = IF channels'[ch].calls # channels[ch].calls
                             THEN Append(@, Head(channels[ch].queue).id)
                             ELSE @]

\* onChangeText={setNewMessage}
ViewType(draft) ==
  /\ screen # NoScreen
  /\ draft # view.newMessage
  /\ UNCHANGED <<schema, convs, parts, msgs, now, call, channels, screen>>
  /\ view' = [view EXCEPT !.newMessage = draft]

\* sendMessage of ChatScreen and of MessageScreen up to its await.  The
\* button is disabled while sending is set or the draft is blank, and the
\* function returns at once without currentUser or conversation; otherwise
\* setSending(true) and the insert request leaves with the trimmed draft.
ViewSendBegin(p) ==
  /\ Idle(p)
  /\ screen # NoScreen
  /\ ~view.sending
  /\ Trim(view.newMessage) # << >>
  /\ ViewUser # NoUser
  /\ ChatLoaded(screen.id)
  /\ UNCHANGED <<schema, convs, parts, msgs, now, channels, screen>>
  /\ call' = [call EXCEPT ![p] =
       SendCall(p, "chatSendMessage", "insert", ViewUser, screen.id, ViewUser,
                view.newMessage, NoMsg, "pending")]
  /\ view' = [view EXCEPT !.sending = TRUE]

\* A send that resets sending only when the insert succeeded.
ViewSendEndLeavesSending(p) ==
  /\ call[p].op = "chatSendMessage"
  /\ call[p].at = "insert"
  /\ UNCHANGED <<schema, convs, parts>>
  /\ LET k == call[p]
     IN \/ /\ InsertMessageAllowed(k.auth, k.c, k.u)
           /\ Len(msgs) < MaxMsgs
           /\ msgs' = Append(msgs, MsgRow(k.c, k.u, Trim(k.content), now))
           /\ now' = now + 1
           /\ call' = [call EXCEPT ![p] =
                SendCall(p, k.op, "returned", k.auth, k.c, k.u, k.content,
                         Len(msgs) + 1, "sent")]
           /\ view' = [view EXCEPT !.newMessage = << >>, !.sending = FALSE]
        \/ /\ UNCHANGED <<msgs, now>>
           /\ call' = [call EXCEPT ![p] =
                SendCall(p, k.op, "returned", k.auth, k.c, k.u, k.content,
                         NoMsg, "alert")]
           /\ UNCHANGED view

\* sendMessage of ChatScreen and of MessageScreen after its await: the
\* insert has stored the row and setNewMessage('') runs, or it came back
\* with an error or threw and the alert is shown; finally setSending(false)
\* in each case.
ViewSendEnd(p) ==
  /\ call[p].op = "chatSendMessage"
  /\ call[p].at = "insert"
  /\ UNCHANGED <<schema, convs, parts>>
  /\ LET k == call[p]
     IN \/ /\ InsertMessageAllowed(k.auth, k.c, k.u)
           /\ Len(msgs) < MaxMsgs
           /\ msgs' = Append(msgs, MsgRow(k.c, k.u, Trim(k.content), now))
           /\ now' = now + 1
           /\ call' = [call EXCEPT ![p] =
                SendCall(p, k.op, "returned", k.auth, k.c, k.u, k.content,
                         Len(msgs) + 1, "sent")]
           /\ view' = [view EXCEPT !.newMessage = << >>, !.sending = FALSE]
        \/ /\ UNCHANGED <<msgs, now>>
           /\ call' = [call EXCEPT ![p] =
                SendCall(p, k.op, "returned", k.auth, k.c, k.u, k.content,
                         NoMsg, "alert")]
           /\ view' = [view EXCEPT !.sending = FALSE]

\* The other user of the conversation sends from their own ChatScreen.
PeerSend(p) ==
  /\ screen # NoScreen
  /\ ChatSendMessage(p, ViewPeer, screen.id, TRUE, <<"a">>)
  /\ Len(msgs') > Len(msgs)

\* One screen is opened on a conversation; its user types and sends,
\* the other user sends, the fetch and the events arrive in any order.
ViewNext ==
  \/ ScreenStart("p1", MaxViewConvs) /\ NoRealtime /\ NoChatView /\ NoCatalog
  \/ HandleMessageInsert("p1") /\ NoRealtime /\ NoChatView /\ NoCatalog
  \/ \E c \in ConvIds : ViewMount(c) /\ NoCatalog
  \/ \E c \in ConvIds : ViewMountMessageScreen(c) /\ NoCatalog
  \/ ViewFetchRead /\ NoCatalog
  \/ ViewFetchDone /\ NoCatalog
  \/ \E ch \in DOMAIN channels : ViewDeliver(ch) /\ NoCatalog
  \/ \E ch \in DOMAIN channels : ViewDeliverMessageScreen(ch) /\ NoCatalog
  \/ \E draft \in Drafts : ViewType(draft) /\ NoCatalog
  \/ ViewSendBegin("p1") /\ NoCatalog
  \/ ViewSendEnd("p1") /\ Publish("p1") /\ NoCatalog
  \/ PeerSend("p2") /\ Publish("p2") /\ NoChatView /\ NoCatalog

ViewSpec == Init /\ [][ViewNext]_vars

\* The request of a send comes back: the promise of the insert settles.
ViewLiveSpec ==
  Init /\ [][ViewNext]_vars /\ WF_vars(ViewSendEnd("p1") /\ Publish("p1") /\ NoCatalog)

----------------------------------------------------------------------------
\* Conversation start.

StartReturned(p) == call[p].op \in StartOps /\ call[p].at = "returned"

\* C1: a conversation-start call that follows a call with the same listing,
\* buyer and seller returns the id that call returned and inserts no
\* conversation row.
C1_SecondCallReusesConversation ==
  \A p \in Procs :
    (StartReturned(p) /\ call[p].same # NoConv)
      => /\ ~call[p].made
         /\ call[p].res \in {call[p].same, NoConv}

\* C2: under sequential use no two conversation rows have the same listing
\* and the same unordered pair of participants.
C2_NoDuplicateConversation ==
  \A c1, c2 \in ConvIds :
    (/\ c1 # c2
     /\ convs[c1].listing_id = convs[c2].listing_id
     /\ Cardinality(Participants(c1)) = 2)
      => Participants(c1) # Participants(c2)

\* C3: a conversation-start call that follows a call with the same listing
\* and the two users swapped returns the id that call returned, and exactly
\* one conversation row exists for the listing and the pair.
C3_SwappedCallReusesConversation ==
  \A p \in Procs :
    (StartReturned(p) /\ call[p].swap # NoConv)
      => /\ call[p].res \in {call[p].swap, NoConv}
         /\ Cardinality(ConvsFor(call[p].l, call[p].a, call[p].b)) = 1

\* The insert of a call that has passed its existence check commits.
InsertCommits(p) == HandleMessageInsert(p) /\ call'[p].made

\* C4: two overlapping calls for the same listing and users can both pass
\* the existence check before either insert commits, and nothing stops a
\* call that has passed the check from inserting its row: the store ends
\* with two conversation rows for the same triple.
C4_CheckedCallCanInsert ==
  \A p \in Procs :
    (/\ call[p].op = "handleMessage"
     /\ call[p].at = "insert"
     /\ Len(convs) < MaxConvs)
      => ENABLED InsertCommits(p)

C4_Witness ==
  \E p, q \in Procs :
    /\ p # q
    /\ StartReturned(p) /\ StartReturned(q)
    /\ call[p].l = call[q].l /\ call[p].a = call[q].a /\ call[p].b = call[q].b
    /\ call[p].chk = "empty" /\ call[q].chk = "empty"
    /\ call[p].made /\ call[q].made
    /\ call[p].res # NoConv /\ call[q].res # NoConv /\ call[p].res # call[q].res
    /\ Cardinality(ConvsFor(call[p].l, call[p].a, call[p].b)) = 2

\* C5: once a conversation-start call has returned, with an id or with a
\* failure, every conversation row has one listing and exactly two distinct
\* participants.
C5_ConversationHasTwoParticipants ==
  (\A p \in Procs : Idle(p))
    => \A c \in ConvIds : /\ convs[c].listing_id \in Listings
                          /\ Cardinality(Participants(c)) = 2

----------------------------------------------------------------------------
\* Sending.

SendReturned(p) == call[p].op \in MsgOps /\ call[p].at = "returned"

\* C6: a send whose text is empty after trimming is turned down: the caller
\* is not told it was sent, no message row is added, and the conversation's
\* updated_at is what it was.
C6_BlankSendIsRejected ==
  \A p \in Procs :
    (SendReturned(p) /\ Trim(call[p].content) = << >>)
      => /\ call[p].ack \notin {"message", "sent"}
         /\ Len(msgs) = call[p].n0
         /\ call[p].c \in ConvIds => convs[call[p].c].updated_at = call[p].upd0

\* The conversation was started by MessagingService.startConversation and
\* has its two participant rows.
ServiceStarted(c) ==
  /\ c \in ConvIds
  /\ convs[c].buyer_id = NoUser
  /\ convs[c].seller_id = NoUser
  /\ Cardinality({u \in Users : <<c, u>> \in parts}) = 2

\* C7: a send into a conversation that does not exist, or under a sender
\* who is not one of the two participants of the conversation, returns no
\* message and adds no row; every stored message has one of the two
\* participants of its conversation as its sender (stated for the
\* conversations the service has started with their two participants).
C7_SenderIsParticipant ==
  /\ \A p \in Procs :
       (/\ SendReturned(p)
        /\ \/ call[p].c \notin ConvIds
           \/ /\ ServiceStarted(call[p].c)
              /\ call[p].u \notin Participants(call[p].c))
         => /\ call[p].res = NoMsg
            /\ Len(msgs) = call[p].n0
  /\ \A m \in MsgIds :
       ServiceStarted(msgs[m].conversation_id)
         => msgs[m].sender_id \in Participants(msgs[m].conversation_id)

\* The read of client p came back without error right after a send of the
\* client that returned message m, non-empty and sent by one of the two
\* participants of a conversation the service has started.
ReadAfterSend(p, m) ==
  /\ call[p].op \in {"getMessages", "getConversations", "fetchConversations"}
  /\ call[p].ok
  /\ m # NoMsg
  /\ call[p].prev = m
  /\ Trim(msgs[m].content) # << >>
  /\ ServiceStarted(msgs[m].conversation_id)
  /\ msgs[m].sender_id \in Participants(msgs[m].conversation_id)

\* C8: right after a send has returned its message, the sender's list of
\* the conversation's messages holds the message last, in creation order,
\* and the other participant's list of conversations has the conversation
\* with that message as its latest message.
C8_SentMessageIsListed ==
  \A p \in Procs : \A m \in MsgIds :
    ReadAfterSend(p, m) =>
      LET c == msgs[m].conversation_id
          r == call[p].res
      IN /\ (/\ call[p].op = "getMessages"
             /\ call[p].c = c
             /\ call[p].auth = msgs[m].sender_id)
              => /\ Len(r) = Cardinality(MessagesOf(c))
                 /\ r[Len(r)] = m
                 /\ \A i, j \in DOMAIN r :
                      i < j => msgs[r[i]].created_at < msgs[r[j]].created_at
         /\ (/\ call[p].op \in {"getConversations", "fetchConversations"}
             /\ call[p].auth \in Participants(c) \ {msgs[m].sender_id})
              => /\ \E i \in DOMAIN r : r[i].id = c
                 /\ \A i \in DOMAIN r : r[i].id = c => r[i].latest_message = m

----------------------------------------------------------------------------
\* Marking as read.

\* C9: a markMessagesAsRead call for conversation c and user r that returns
\* true sets is_read on every message of c whose sender is not r, leaves
\* is_read of the messages of c sent by r as it was, and changes no message
\* of another conversation.
C9_MarkReadFlipsOthersOnly ==
  [][\A p \in Procs :
       (call'[p].op = "markMessagesAsRead" /\ call'[p].res)
         => /\ DOMAIN msgs' = DOMAIN msgs
            /\ \A m \in MsgIds :
                 IF msgs[m].conversation_id # call'[p].c
                 THEN msgs'[m] = msgs[m]
                 ELSE IF msgs[m].sender_id # call'[p].u
                 THEN msgs'[m] = [msgs[m] EXCEPT !.is_read = TRUE]
                 ELSE msgs'[m] = msgs[m]]_vars

C9_Witness ==
  \E p \in Procs :
    /\ call[p].op = "markMessagesAsRead"
    /\ call[p].res
    /\ \E m \in MessagesOf(call[p].c) :
         msgs[m].sender_id # call[p].u /\ msgs[m].is_read
    /\ \E m \in MsgIds :
         /\ ~msgs[m].is_read
         /\ \/ msgs[m].conversation_id # call[p].c
            \/ msgs[m].sender_id = call[p].u

\* C10: a markMessagesAsRead call that returns true right after the same
\* call has returned true changes nothing in the store.
C10_MarkReadIdempotent ==
  [][\A p \in Procs :
       (/\ call[p].op = "markMessagesAsRead" /\ call[p].res
        /\ call'[p].op = "markMessagesAsRead" /\ call'[p].res
        /\ call'[p].c = call[p].c
        /\ call'[p].u = call[p].u)
         => /\ msgs' = msgs
            /\ convs' = convs
            /\ parts' = parts]_vars

C10_Witness ==
  \E p \in Procs :
    /\ call[p].op = "markMessagesAsRead"
    /\ call[p].res
    /\ call[p].twice
    /\ \E m \in MessagesOf(call[p].c) :
         msgs[m].sender_id # call[p].u /\ msgs[m].is_read

\* C11: over every step of the conversation starts, the sends and
\* markMessagesAsRead, a message whose is_read is true keeps it true.
C11_ReadFlagIsOneWay ==
  [][\A m \in MsgIds : msgs[m].is_read => (m \in DOMAIN msgs' /\ msgs'[m].is_read)]_vars

C11_Witness ==
  \E p \in Procs :
    /\ call[p].op = "sendMessage"
    /\ call[p].at = "returned"
    /\ call[p].res # NoMsg
    /\ \E m \in MsgIds : m # call[p].res /\ msgs[m].is_read

\* C12: is_read of a message goes from false to true only in a
\* markMessagesAsRead call for the message's conversation whose user is a
\* participant of that conversation and is not the message's sender; a call
\* for a user who is no participant marks nothing (stated for the
\* conversations the service has started with their two participants).
C12_OnlyParticipantMarksRead ==
  [][\A m \in MsgIds :
       (/\ ServiceStarted(msgs[m].conversation_id)
        /\ ~msgs[m].is_read
        /\ msgs'[m].is_read)
         => \E p \in Procs :
              /\ call'[p].op = "markMessagesAsRead"
              /\ call'[p].res
              /\ call'[p].c = msgs[m].conversation_id
              /\ call'[p].u \in Participants(msgs[m].conversation_id)
              /\ call'[p].u # msgs[m].sender_id]_vars

----------------------------------------------------------------------------
\* Listing.

\* The read client p made last is a list of the messages of a conversation
\* that came back without error.
MessagesListed(p) ==
  /\ call[p].op \in {"getMessages", "fetchMessages"}
  /\ call[p].ok

\* C13: a list of the messages of conversation c holds messages of c only,
\* each once, oldest first by created_at, and holds all of them for a reader
\* who is a participant of c, in whatever order the participants have sent.
C13_MessagesListedOldestFirst ==
  \A p \in Procs :
    MessagesListed(p) =>
      LET r == call[p].res
          c == call[p].c
      IN /\ \A i \in DOMAIN r : r[i] \in MessagesOf(c)
         /\ \A i, j \in DOMAIN r :
              i < j => msgs[r[i]].created_at < msgs[r[j]].created_at
         /\ (c \in ConvIds /\ call[p].auth \in Participants(c))
              => Len(r) = Cardinality(MessagesOf(c))

C13_Witness ==
  \E p \in Procs :
    /\ MessagesListed(p)
    /\ call[p].c \in ConvIds
    /\ call[p].auth \in Participants(call[p].c)
    /\ Len(call[p].res) = 2
    /\ msgs[call[p].res[1]].sender_id # msgs[call[p].res[2]].sender_id

\* The list of conversations client p asked for last came back without error.
ConversationsListed(p) ==
  /\ call[p].op \in {"getConversations", "fetchConversations"}
  /\ call[p].ok

\* Conversation c has received a message later than every message of d.
MoreRecentMessage(c, d) ==
  /\ MessagesOf(c) # {}
  /\ MessagesOf(d) # {}
  /\ msgs[Latest(MessagesOf(c))].created_at > msgs[Latest(MessagesOf(d))].created_at

\* C14: a list of conversations is in order of updated_at descending, and a
\* conversation that has received a message more recently than another
\* comes before it (stated for conversations of different pairs of users).
C14_ListedByLatestActivity ==
  \A p \in Procs :
    ConversationsListed(p) =>
      LET r == call[p].res
      IN \A i, j \in DOMAIN r :
           (i < j /\ Participants(r[i].id) # Participants(r[j].id))
             => /\ convs[r[i].id].updated_at >= convs[r[j].id].updated_at
                /\ ~MoreRecentMessage(r[j].id, r[i].id)

\* C15: a list of conversations made for user u holds every conversation
\* in which u is a participant and no conversation in which u is not
\* (stated on the tables of setupMessagingTables, for conversations started
\* by startConversation).
C15_ListsOwnConversationsOnly ==
  \A p \in Procs :
    (/\ ConversationsListed(p)
     /\ schema = "setup"
     /\ \A c \in ConvIds : ServiceStarted(c))
      => {call[p].res[i].id : i \in DOMAIN call[p].res}
           = {c \in ConvIds : call[p].auth \in Participants(c)}

----------------------------------------------------------------------------
\* Subscriptions.

\* The callback of channel ch is called in this step.
CallbackCalled(ch) == channels'[ch].calls # channels[ch].calls

\* C16: the callback of a subscription on conversation c is called only
\* for an INSERT event of a message of c, once for the event, with the
\* inserted row: never for a message of another conversation, and never for
\* an update of a message.
C16_CallbackForInsertsOfConversation ==
  [][\A ch \in DOMAIN channels :
       CallbackCalled(ch) =>
         LET e == Head(channels[ch].queue)
         IN /\ channels[ch].queue # << >>
            /\ e.type = "INSERT"
            /\ e.table = "messages"
            /\ e.id \in MsgIds
            /\ msgs[e.id].conversation_id = channels[ch].c
            /\ channels'[ch].calls = Append(channels[ch].calls, e.id)
            /\ \A i \in DOMAIN channels[ch].calls : channels[ch].calls[i] # e.id]_vars

\* A callback was called once for a message that was marked read later,
\* while a later message went into another conversation.
C16_Witness ==
  \E ch \in DOMAIN channels :
    /\ channels[ch].live
    /\ channels[ch].queue = << >>
    /\ Len(channels[ch].calls) = 1
    /\ msgs[channels[ch].calls[1]].is_read
    /\ \E m \in MsgIds :
         m > channels[ch].calls[1] /\ msgs[m].conversation_id # channels[ch].c

\* C17: once a conversation screen is left or moved to another conversation
\* id, the callback it registered for the conversation shown before is not
\* called again: a screen's callback is called only on its one subscribed
\* channel, the one of the conversation the screen shows.
C17_CallbackOnlyForShownConversation ==
  [][\A ch \in DOMAIN channels :
       (CallbackCalled(ch) /\ channels[ch].owner # "subscribeToMessages")
         => /\ screen.kind = channels[ch].owner
            /\ screen.id = channels[ch].c
            /\ \A other \in DOMAIN channels :
                 (channels[other].live /\ channels[other].owner = channels[ch].owner)
                   => other = ch]_vars

----------------------------------------------------------------------------
\* Failures.

\* A read of MessagingService whose request came back with an error.
ReadFailed(p) ==
  call[p].op \in {"getMessages", "getConversations"} /\ ~call[p].ok

\* C18: getMessages and getConversations return, when the request fails, a
\* value that differs from the empty list a successful read of nothing
\* returns.
C18_FailedReadIsNotEmptyList ==
  \A p \in Procs : ReadFailed(p) => call[p].res # << >>

\* sendMessage of client p has inserted its message and has returned with
\* the conversation's updated_at left as it was.
SentButNotTouched(p) ==
  /\ call[p].op = "sendMessage"
  /\ call[p].at = "returned"
  /\ Len(msgs) > call[p].n0
  /\ convs[call[p].c].updated_at = call[p].upd0

\* C19: when sendMessage has inserted the message and the update of the
\* conversation's updated_at fails, by a returned error or by an exception,
\* the message row stays stored and sendMessage returns the message.
C19_SendSurvivesFailedTouch ==
  \A p \in Procs :
    SentButNotTouched(p)
      => /\ call[p].res \in MsgIds
         /\ msgs[call[p].res].conversation_id = call[p].c
         /\ msgs[call[p].res].sender_id = call[p].u
         /\ call[p].ack = "message"

\* C20: a conversation-start call whose listing or one of whose users does
\* not exist, or one of whose writes fails, returns no conversation id; an
\* id it returns is the id of a stored conversation about the listing with
\* the two users as its participants.
C20_StartFailureReturnsNoId ==
  \A p \in Procs :
    StartReturned(p) =>
      /\ (call[p].l \notin Listings \/ ~({call[p].a, call[p].b} \subseteq Users))
           => call[p].res = NoConv
      /\ call[p].res # NoConv
           => /\ call[p].res \in ConvIds
              /\ convs[call[p].res].listing_id = call[p].l
              /\ Participants(call[p].res) = {call[p].a, call[p].b}

\* startConversation wrote the conversation row, failed to write the
\* participants of a user who does not exist and returned no id.
C20_Witness ==
  \E p \in Procs :
    /\ StartReturned(p)
    /\ call[p].op = "startConversation"
    /\ call[p].made
    /\ call[p].l \in Listings
    /\ NoSuchUser \in {call[p].a, call[p].b}
    /\ call[p].res = NoConv
    /\ \E c \in ConvIds : Participants(c) = {}

----------------------------------------------------------------------------
\* Timestamps and rows.

\* sendMessage of client p has returned its message and has changed the
\* conversation's updated_at.
SentAndTouched(p) ==
  /\ call[p].op = "sendMessage"
  /\ call[p].at = "returned"
  /\ call[p].ack = "message"
  /\ convs[call[p].c].updated_at # call[p].upd0

\* C22: after a sendMessage whose insert and whose update both succeeded,
\* the conversation's updated_at equals the created_at of the message the
\* call inserted.
C22_TouchedAtMessageTime ==
  \A p \in Procs :
    SentAndTouched(p)
      => convs[call[p].c].updated_at = msgs[call[p].res].created_at

\* The send of client p, by the service or by a chat screen, has stored a
\* message and has told its caller so.
SendSucceeded(p) ==
  /\ SendReturned(p)
  /\ call[p].ack \in {"message", "sent"}
  /\ Len(msgs) > call[p].n0

\* C23: after a successful send into a conversation, through the service
\* or through a chat screen, the conversation's updated_at is later than it
\* was before the send.
C23_SendAdvancesUpdatedAt ==
  \A p \in Procs :
    SendSucceeded(p) => convs[call[p].c].updated_at > call[p].upd0

\* C24: over every step of the conversation starts, the sends and
\* markMessagesAsRead, a stored message keeps its id, conversation_id,
\* sender_id, content and created_at: only is_read changes.
C24_MessageFieldsNeverChange ==
  [][\A m \in MsgIds :
       /\ m \in DOMAIN msgs'
       /\ msgs'[m].conversation_id = msgs[m].conversation_id
       /\ msgs'[m].sender_id = msgs[m].sender_id
       /\ msgs'[m].content = msgs[m].content
       /\ msgs'[m].created_at = msgs[m].created_at]_vars

\* markMessagesAsRead has marked the two stored messages read.
C24_Witness ==
  \E p \in Procs :
    /\ call[p].op = "markMessagesAsRead"
    /\ call[p].res
    /\ Len(msgs) = 2
    /\ \A m \in MsgIds :
         /\ msgs[m].is_read
         /\ msgs[m].conversation_id = call[p].c
         /\ msgs[m].content = <<"a">>

----------------------------------------------------------------------------
\* Conversations without messages.

\* C26: a list of conversations that came back without error holds every
\* conversation of the user that has no message, and reports a conversation
\* without messages with no latest message.
C26_EmptyConversationIsListed ==
  \A p \in Procs :
    ConversationsListed(p) =>
      LET r == call[p].res
      IN /\ \A i \in DOMAIN r :
              MessagesOf(r[i].id) = {} => r[i].latest_message = NoMsg
         /\ \A c \in ConvIds :
              (call[p].auth \in Participants(c) /\ MessagesOf(c) = {})
                => \E i \in DOMAIN r : r[i].id = c

\* A user's list came back with a conversation of theirs that has no
\* message, while another conversation has one.
C26_Witness ==
  \E p \in Procs :
    /\ ConversationsListed(p)
    /\ msgs # << >>
    /\ \E i \in DOMAIN call[p].res :
         /\ call[p].auth \in Participants(call[p].res[i].id)
         /\ MessagesOf(call[p].res[i].id) = {}
         /\ call[p].res[i].latest_message = NoMsg

----------------------------------------------------------------------------
\* Listings.

\* C27: submitListing inserts a listing only when title and description are
\* filled, a category is chosen, the condition is one of new, good, fair
\* and poor, and the price is a number greater than 0, which the inserted
\* row then carries; a submission it turns down writes nothing.
C27_ListingInsertIsValidated ==
  [][\A p \in Procs :
       (call'[p] # call[p] /\ call'[p].op = "submitListing")
         => IF call'[p].res = "created"
            THEN LET row == listings'[Len(listings')]
                 IN /\ Len(listings') = Len(listings) + 1
                    /\ row.title # << >>
                    /\ row.description # << >>
                    /\ row.category_id # NoCategory
                    /\ row.condition \in validConditions
                    /\ row.price.kind = "finite"
                    /\ row.price.v > 0
            ELSE UNCHANGED <<listings, images>>]_vars

\* fixListingImages of client p has returned true.
FixReturnedTrue(p) ==
  call[p].op = "fixListingImages" /\ call[p].at = "returned" /\ call[p].res

\* C30: when fixListingImages has returned true, every listing has an
\* image row with a valid file_path, and a listing that had one when the
\* run started has the image rows it had.
C30_FixLeavesEveryListingAnImage ==
  \A p \in Procs :
    FixReturnedTrue(p) =>
      \A l \in DOMAIN listings :
        /\ hasValidImages(ImagesOf(images, l))
        /\ hasValidImages(ImagesOf(call[p].images0, l))
             => ImagesOf(images, l) = ImagesOf(call[p].images0, l)

----------------------------------------------------------------------------
\* The chat screen.

\* C21: the list of messages on screen never holds one message id twice,
\* however the initial fetch, the sends and the INSERT events interleave.
C21_NoDuplicateMessageOnScreen ==
  \A i, j \in DOMAIN view.messages :
    i # j => view.messages[i] # view.messages[j]

\* C28: once the initial fetch of the open screen has been processed, every
\* message inserted after the screen subscribed whose event the callback
\* has processed is in the list on screen.
C28_DeliveredMessageStaysOnScreen ==
  (screen.kind = "ChatScreen" /\ view.fetch = "done") =>
    \A ch \in DOMAIN channels :
      (channels[ch].owner = "ChatScreen" /\ channels[ch].c = screen.id) =>
        \A i \in DOMAIN channels[ch].calls :
          \E j \in DOMAIN view.messages :
            view.messages[j] = channels[ch].calls[i]

\* The send of client p comes back in this step.
SendComesBack(p) ==
  /\ call[p].op = "chatSendMessage"
  /\ call[p].at = "insert"
  /\ call'[p].at = "returned"

\* C29: a send that has set sending resets it in the end, whether the
\* insert stores the row, returns an error or throws; when the send comes
\* back the draft is cleared if the insert stored the row and is left as
\* it is if not, and no other step of a send touches the draft.
C29_SendingIsResetAndDraftKept ==
  /\ view.sending ~> ~view.sending
  /\ [][/\ SendComesBack("p1") =>
            /\ ~view'.sending
            /\ view'.newMessage =
                 IF call'["p1"].ack = "sent" THEN << >> ELSE view.newMessage
        /\ (~view.sending /\ view'.sending) => view'.newMessage = view.newMessage]_vars

\* A send on ChatScreen has failed: sending is reset and the draft is
\* still in the input.
C29_Witness ==
  /\ screen.kind = "ChatScreen"
  /\ call["p1"].op = "chatSendMessage"
  /\ call["p1"].at = "returned"
  /\ call["p1"].ack = "alert"
  /\ ~view.sending
  /\ view.newMessage = call["p1"].content
  /\ Trim(view.newMessage) # << >>

====
